---- MODULE Spec2Model ----
(***************************************************************************)
(* Emotion sampling loop of the interview UI:                              *)
(*   - FaceApiEmotionDetector   (utils/faceApi/emotionDetection)           *)
(*   - useFaceApiEmotionDetection (hooks/useFaceApiEmotionDetection)       *)
(*   - the camera handling of CameraEmotionDetector and                    *)
(*     IntegratedAIInterviewWithTracking                                   *)
(* Scores are percentages (0..100) instead of fractions of 1, ages are in  *)
(* tenths of a year, times are milliseconds.                               *)
(***************************************************************************)
EXTENDS Integers, Sequences, FiniteSets, TLC

\* ------------------------------------------------------------------ bounds
\* Last instant of the simulated clock of Spec and the step of its clock.
MaxTime == 700
ClockStep == 111
\* Last instant of the simulated clock of SpecThrottle and its frame period.
ThrottleHorizon == 1400
FrameMs == 16
\* getUserMedia calls that may be pending at once, and streams ever acquired.
MaxPendingGUM == 2
MaxStreams == 2
\* initialize() / detectEmotions() calls a direct caller keeps in flight.
MaxLoads == 2
MaxInFlight == 2
\* Granularity of the expression scores fed to the normalizer: a face's seven
\* scores are multiples of 1/ScoreLevels that add up to 1.
ScoreLevels == 4

\* -------------------------------------------------------- program constants
ThrottleMs == 333
HaveNothing == 0
HaveCurrentData == 2
HaveEnoughData == 4

\* ------------------------------------------------------------- data model
\* Keys of FaceApiEmotionResult, in the insertion order of the object literal.
FaceApiKeys == <<"neutral", "happy", "sad", "angry", "fearful", "disgusted", "surprised">>

\* Keys of EmotionState.scores.
EmotionCategories == {"neutral", "happy", "sad", "angry", "surprised", "fearful", "disgust"}

\* A missing (undefined) number / string of the external library's output.
UndefinedNum == -1
UndefinedStr == "undefined"

\* `x || d` on a number: undefined and 0 are falsy.
OrNum(x, d) == IF x = UndefinedNum \/ x = 0 THEN d ELSE x

\* `x || d` on a string.
OrStr(x, d) == IF x = UndefinedStr \/ x = "" THEN d ELSE x

\* Math.round on a value given in tenths.
MathRound(tenths) == (tenths + 5) \div 10

\* What face-api's detectAllFaces chain can produce for one call: an exception,
\* an empty detection list, or a first detection with expressions, age, gender.
Face(n, h, s, a, f, d, su, age, gender) ==
    [kind |-> "face",
     expressions |-> [neutral |-> n, happy |-> h, sad |-> s, angry |-> a,
                      fearful |-> f, disgusted |-> d, surprised |-> su],
     age |-> age, gender |-> gender]

HappyFace == Face(10, 80, 10, 0, 0, 0, 0, 273, "female")
DisgustedFace == Face(5, UndefinedNum, 0, 0, 0, 90, 5, UndefinedNum, UndefinedStr)

CapabilityOutcomes ==
    {[kind |-> "throws"], [kind |-> "noface"], HappyFace, DisgustedFace}

\* The faces face-api can report at the granularity of ScoreLevels: expression
\* scores are a probability distribution over the seven expressions.
Percent(units) == (100 * units) \div ScoreLevels

ScoreDistributions ==
    {e \in [{"neutral", "happy", "sad", "angry", "fearful", "disgusted", "surprised"}
               -> 0..ScoreLevels] :
        e.neutral + e.happy + e.sad + e.angry + e.fearful + e.disgusted + e.surprised
            = ScoreLevels}

Ages == {UndefinedNum, 273}
Genders == {UndefinedStr, "male"}

AllFaces ==
    {Face(Percent(e.neutral), Percent(e.happy), Percent(e.sad), Percent(e.angry),
          Percent(e.fearful), Percent(e.disgusted), Percent(e.surprised), age, gender) :
        e \in ScoreDistributions, age \in Ages, gender \in Genders}

\* Everything one call of the detectAllFaces chain can answer.
NormalizerInputs == CapabilityOutcomes \cup AllFaces

\* The not-found signal (null).
Null == [null |-> TRUE]

\* A reduce whose comparison is turned round.
RECURSIVE ReduceMaxTurned(_, _, _)
ReduceMaxTurned(emotions, i, max) ==
    IF i > Len(FaceApiKeys) THEN max
    ELSE LET current == FaceApiKeys[i] IN
         ReduceMaxTurned(emotions, i + 1,
                         IF emotions[current] < emotions[max] THEN current ELSE max)

\* Object.entries(emotions).reduce((max, current) => current[1] > max[1] ? current : max)
RECURSIVE ReduceMax(_, _, _)
ReduceMax(emotions, i, max) ==
    IF i > Len(FaceApiKeys) THEN max
    ELSE LET current == FaceApiKeys[i] IN
         ReduceMax(emotions, i + 1,
                   IF emotions[current] > emotions[max] THEN current ELSE max)

\* A no-face result that reports the score of neutral as its confidence.
DetectEmotionsResultNoFaceConfident(outcome) ==
    IF outcome.kind = "throws" THEN Null
    ELSE IF outcome.kind = "noface" THEN
        [null |-> FALSE,
         emotions |-> [neutral |-> 100, happy |-> 0, sad |-> 0, angry |-> 0,
                       fearful |-> 0, disgusted |-> 0, surprised |-> 0],
         dominant |-> "neutral", confidence |-> 100,
         age |-> UndefinedNum, gender |-> UndefinedStr, faceDetected |-> FALSE]
    ELSE LET emotions == [k \in DOMAIN outcome.expressions |->
                              OrNum(outcome.expressions[k], 0)]
             dominantEmotion == ReduceMax(emotions, 2, FaceApiKeys[1])
         IN [null |-> FALSE,
             emotions |-> emotions,
             dominant |-> dominantEmotion,
             confidence |-> emotions[dominantEmotion],
             age |-> MathRound(OrNum(outcome.age, 0)),
             gender |-> OrStr(outcome.gender, "unknown"),
             faceDetected |-> TRUE]

\* detectEmotions, from the capability's answer on: the result it returns.
DetectEmotionsResult(outcome) ==
    IF outcome.kind = "throws" THEN Null
    ELSE IF outcome.kind = "noface" THEN
        [null |-> FALSE,
         emotions |-> [neutral |-> 100, happy |-> 0, sad |-> 0, angry |-> 0,
                       fearful |-> 0, disgusted |-> 0, surprised |-> 0],
         dominant |-> "neutral", confidence |-> 0,
         age |-> UndefinedNum, gender |-> UndefinedStr, faceDetected |-> FALSE]
    ELSE LET emotions == [k \in DOMAIN outcome.expressions |->
                              OrNum(outcome.expressions[k], 0)]
             dominantEmotion == ReduceMax(emotions, 2, FaceApiKeys[1])
         IN [null |-> FALSE,
             emotions |-> emotions,
             dominant |-> dominantEmotion,
             confidence |-> emotions[dominantEmotion],
             age |-> MathRound(OrNum(outcome.age, 0)),
             gender |-> OrStr(outcome.gender, "unknown"),
             faceDetected |-> TRUE]

\* iconMap[emotion]: undefined for a key the table does not have.
IconMap(emotion) ==
    CASE emotion = "happy" -> "smiling"
      [] emotion = "sad" -> "crying"
      [] emotion = "angry" -> "pouting"
      [] emotion = "surprised" -> "astonished"
      [] emotion = "fearful" -> "fearful"
      [] emotion = "disgusted" -> "nauseated"
      [] emotion = "neutral" -> "neutralface"
      [] OTHER -> UndefinedStr

\* A lookup without the default.
GetEmotionIconNoDefault(emotion) == IconMap(emotion)

\* getEmotionIcon: iconMap[emotion] || default.
GetEmotionIcon(emotion) == OrStr(IconMap(emotion), "neutralface")

\* toneMap[dominant] of the analysis card.
ToneMap(dominant) ==
    CASE dominant = "happy" -> "Positive"
      [] dominant = "sad" -> "Melancholic"
      [] dominant = "angry" -> "Intense"
      [] dominant = "surprised" -> "Energetic"
      [] dominant = "fearful" -> "Anxious"
      [] dominant = "disgusted" -> "Disapproving"
      [] dominant = "neutral" -> "Balanced"
      [] OTHER -> UndefinedStr

\* getEmotionalTone: toneMap[dominant] || 'Balanced'.
GetEmotionalTone(dominant) == OrStr(ToneMap(dominant), "Balanced")

\* processFrame's conversion of a result into an EmotionState.
NewEmotionState(result) ==
    [dominant |-> result.dominant,
     confidence |-> result.confidence,
     scores |-> [neutral |-> result.emotions.neutral,
                 happy |-> result.emotions.happy,
                 sad |-> result.emotions.sad,
                 angry |-> result.emotions.angry,
                 surprised |-> result.emotions.surprised,
                 fearful |-> result.emotions.fearful,
                 disgust |-> result.emotions.disgusted],
     icon |-> GetEmotionIcon(result.dominant)]

\* Additional data that always reports a face.
NewAdditionalDataFaceAlways(result) ==
    [age |-> result.age, gender |-> result.gender, faceDetected |-> TRUE]

\* processFrame's additional data of a result.
NewAdditionalData(result) ==
    [age |-> result.age, gender |-> result.gender, faceDetected |-> result.faceDetected]

\* useState initial values of the hook.
InitialEmotionState ==
    [dominant |-> "neutral",
     confidence |-> 0,
     scores |-> [neutral |-> 100, happy |-> 0, sad |-> 0, angry |-> 0,
                 surprised |-> 0, fearful |-> 0, disgust |-> 0],
     icon |-> "neutralface"]

InitialAdditionalData ==
    [age |-> UndefinedNum, gender |-> UndefinedStr, faceDetected |-> FALSE]


\* ------------------------------------------------------------------ state
VARIABLES
    \* Media Source Controller (component state, the <video> element, devices)
    mounted,            \* the component is mounted (videoRef.current is set)
    cameraEnabled,      \* useState cameraEnabled
    isVideoReady,       \* useState isVideoReady
    stream,             \* useState stream: 0 is null, else the stream's id
    video,              \* the <video> element: srcObject, readyState, onloadeddata
    tracks,             \* per stream id: "none", "live" or "ended" tracks
    gumPending,         \* getUserMedia promises not yet settled
    cameraInit,         \* how the last settled initializeCamera() call ended
    lastAcquire,        \* what became of the getUserMedia call that settled last
    component,          \* which of the two components this is
    micEnabled,         \* useState micEnabled of the interview component
    audio,              \* per stream id: "none", or its audio tracks' enabled flag
    \* useFaceApiEmotionDetection
    isInitialized,      \* useState isInitialized
    detectorRef,        \* detectorRef.current is set
    animationFrameRef,  \* animationFrameRef.current: 0 is undefined
    lastProcessTimeRef, \* lastProcessTimeRef.current
    emotionState,       \* useState emotionState
    additionalData,     \* useState additionalData
    \* FaceApiEmotionDetector instance
    detector,           \* its fields isInitialized, modelsLoaded
    loads,              \* initialize() calls awaiting the model load
    detections,         \* detectEmotions() calls awaiting the capability
    \* host
    rafQueue,           \* requested animation frames not yet run or cancelled
    now,                \* performance.now()
    \* observations
    invocations,        \* times at which the loop invoked detectEmotions
    initOutcome,        \* how the last settled initialize() call ended
    returned,           \* the return statement the last detectEmotions call ended at
    disposed,           \* dispose() ran and no initialize() called after it succeeded
    lastLoad,           \* what became of the model load that settled last
    lastResult,         \* the value the last detectEmotions call returned
    publishedSeq        \* the call whose result is published: 0 is none

ctrlVars == <<mounted, cameraEnabled, isVideoReady, stream, video, tracks, gumPending,
              cameraInit, lastAcquire, component, micEnabled, audio>>

hookVars == <<isInitialized, detectorRef, animationFrameRef, lastProcessTimeRef,
              emotionState, additionalData, detector, loads, detections, rafQueue,
              invocations, initOutcome, returned, disposed, lastLoad, lastResult,
          publishedSeq>>

vars == <<mounted, cameraEnabled, isVideoReady, stream, video, tracks, gumPending,
          cameraInit, lastAcquire, component, micEnabled, audio,
          isInitialized, detectorRef, animationFrameRef, lastProcessTimeRef,
          emotionState, additionalData, detector, loads, detections, rafQueue, now,
          invocations, initOutcome, returned, disposed, lastLoad, lastResult,
          publishedSeq>>

\* The hook, its detector and the host's frame queue as one value, so that the
\* functions of the hook can be composed.
Hook ==
    [isInitialized |-> isInitialized, detectorRef |-> detectorRef,
     animationFrameRef |-> animationFrameRef, lastProcessTimeRef |-> lastProcessTimeRef,
     emotionState |-> emotionState, additionalData |-> additionalData,
     detector |-> detector, loads |-> loads, detections |-> detections,
     rafQueue |-> rafQueue, invocations |-> invocations, initOutcome |-> initOutcome,
     returned |-> returned, disposed |-> disposed, lastLoad |-> lastLoad,
     lastResult |-> lastResult, publishedSeq |-> publishedSeq]

SetHook(m) ==
    /\ isInitialized' = m.isInitialized
    /\ detectorRef' = m.detectorRef
    /\ animationFrameRef' = m.animationFrameRef
    /\ lastProcessTimeRef' = m.lastProcessTimeRef
    /\ emotionState' = m.emotionState
    /\ additionalData' = m.additionalData
    /\ detector' = m.detector
    /\ loads' = m.loads
    /\ detections' = m.detections
    /\ rafQueue' = m.rafQueue
    /\ invocations' = m.invocations
    /\ initOutcome' = m.initOutcome
    /\ returned' = m.returned
    /\ disposed' = m.disposed
    /\ lastLoad' = m.lastLoad
    /\ lastResult' = m.lastResult
    /\ publishedSeq' = m.publishedSeq

HookIs(m) ==
    /\ isInitialized = m.isInitialized
    /\ detectorRef = m.detectorRef
    /\ animationFrameRef = m.animationFrameRef
    /\ lastProcessTimeRef = m.lastProcessTimeRef
    /\ emotionState = m.emotionState
    /\ additionalData = m.additionalData
    /\ detector = m.detector
    /\ loads = m.loads
    /\ detections = m.detections
    /\ rafQueue = m.rafQueue
    /\ invocations = m.invocations
    /\ initOutcome = m.initOutcome
    /\ returned = m.returned
    /\ disposed = m.disposed
    /\ lastLoad = m.lastLoad
    /\ lastResult = m.lastResult
    /\ publishedSeq = m.publishedSeq

\* ------------------------------------------------- FaceApiEmotionDetector
\* new FaceApiEmotionDetector(): the field initialisers.
NewDetector == [isInitialized |-> FALSE, modelsLoaded |-> FALSE]

\* The lifecycle state `ready`, as detectEmotions tests it.
Ready(d) == d.isInitialized /\ d.modelsLoaded

\* initialize() up to its await: returns at once when initialized, else starts
\* the model load.
Initialize(m, caller) ==
    IF m.detector.isInitialized
    THEN [m EXCEPT !.initOutcome = "resolved"]
    ELSE [m EXCEPT !.loads = Append(@, [caller |-> caller, stale |-> FALSE]),
                   !.initOutcome = "none",
                   !.lastLoad = "none"]

\* initialize() after the await resolved.
ModelsLoaded(m, load) ==
    [m EXCEPT !.detector = [isInitialized |-> TRUE, modelsLoaded |-> TRUE],
              !.initOutcome = "resolved",
              !.lastLoad = "loaded",
              !.disposed = IF load.stale THEN @ ELSE FALSE]

\* A catch that logs and does not rethrow.
ModelsFailedSwallowed(m, load) ==
    [m EXCEPT !.initOutcome = "resolved", !.lastLoad = "failed"]

\* initialize() after the await rejected: the catch logs and rethrows.
ModelsFailed(m, load) ==
    [m EXCEPT !.initOutcome = "rejected", !.lastLoad = "failed"]

\* dispose()
Dispose(m) ==
    [m EXCEPT !.detector = [isInitialized |-> FALSE, modelsLoaded |-> FALSE],
              !.disposed = TRUE,
              !.loads = [i \in DOMAIN @ |-> [@[i] EXCEPT !.stale = TRUE]]]

\* A guard that lets every call through.
NotInitializedDropped(d) == FALSE

\* The guard at the head of detectEmotions.
NotInitialized(d) == ~d.isInitialized \/ ~d.modelsLoaded

\* detectEmotions up to its await: not-found at once unless ready, else the
\* call to the capability is under way.
DetectEmotions(m, call) ==
    IF NotInitialized(m.detector)
    THEN [m EXCEPT !.returned = "notInitialized", !.lastResult = Null]
    ELSE [m EXCEPT !.detections = @ \cup {call}]

\* detectEmotions from the capability's answer on.
DetectEmotionsReturns(m, call, outcome) ==
    [m EXCEPT !.detections = @ \ {call},
              !.returned = IF outcome.kind = "throws" THEN "caught" ELSE "result",
              !.lastResult = DetectEmotionsResult(outcome)]

\* ----------------------------------------------------------------- host
SmallestFree(used) == CHOOSE i \in 1..(Cardinality(used) + 1) :
                          /\ i \notin used
                          /\ \A j \in 1..(i - 1) : j \in used

\* requestAnimationFrame(processFrame) followed by the assignment of its handle
\* to animationFrameRef.current. Handles are positive; a handle is taken again
\* only when no pending request and no reference holds it.
RequestAnimationFrame(m, closure) ==
    LET id == SmallestFree(({f.id : f \in m.rafQueue} \cup {m.animationFrameRef}) \ {0})
    IN [m EXCEPT !.rafQueue = @ \cup {[id |-> id, isActive |-> closure.isActive,
                                       isInitialized |-> closure.isInitialized]},
                 !.animationFrameRef = id]

\* if (animationFrameRef.current) cancelAnimationFrame(animationFrameRef.current)
CancelAnimationFrame(m) ==
    IF m.animationFrameRef # 0
    THEN [m EXCEPT !.rafQueue = {f \in @ : f.id # m.animationFrameRef}]
    ELSE m

\* ------------------------------------------------------------------- hook
\* The video test of processFrame; the element knows its size once it has data.
VideoWidth(v) == IF v.readyState = HaveNothing THEN 0 ELSE 640
VideoHeight(v) == IF v.readyState = HaveNothing THEN 0 ELSE 480
FrameNotReady(v) ==
    v.readyState # HaveEnoughData \/ VideoWidth(v) = 0 \/ VideoHeight(v) = 0

\* A throttle test against 33 ms.
ThrottledTypo(t, last) == t - last < 33

\* The throttle test of processFrame.
Throttled(t, last) == t - last < ThrottleMs

\* A continuation that reschedules only inside `if (result)`.
AfterDetectNoReschedule(m, closure, result, isMounted) ==
    IF ~result.null
    THEN LET m1 == IF isMounted
                   THEN [m EXCEPT !.emotionState = NewEmotionState(result),
                                  !.additionalData = NewAdditionalData(result)]
                   ELSE m
         IN IF closure.isActive THEN RequestAnimationFrame(m1, closure) ELSE m1
    ELSE m

\* A continuation that resets the published state when there is no result.
AfterDetectResetsOnNull(m, closure, result, isMounted) ==
    LET m1 == IF isMounted
              THEN IF ~result.null
                   THEN [m EXCEPT !.emotionState = NewEmotionState(result),
                                  !.additionalData = NewAdditionalData(result)]
                   ELSE [m EXCEPT !.emotionState = InitialEmotionState,
                                  !.additionalData = InitialAdditionalData]
              ELSE m
    IN IF closure.isActive THEN RequestAnimationFrame(m1, closure) ELSE m1

\* processFrame from the return of detectEmotions on: publish, then reschedule.
\* A state setter of an unmounted component does nothing.
AfterDetect(m, closure, result, isMounted) ==
    LET m1 == IF ~result.null /\ isMounted
              THEN [m EXCEPT !.emotionState = NewEmotionState(result),
                             !.additionalData = NewAdditionalData(result),
                             !.publishedSeq = closure.seq]
              ELSE m
    IN IF closure.isActive THEN RequestAnimationFrame(m1, closure) ELSE m1

\* processFrame up to its await. closure holds the isActive and isInitialized of
\* the render that created this processFrame.
ProcessFrame(m, closure, videoRefCurrent, v, t) ==
    IF ~closure.isActive \/ ~videoRefCurrent \/ ~m.detectorRef \/ ~closure.isInitialized
    THEN m
    ELSE IF FrameNotReady(v) THEN m
    ELSE IF Throttled(t, m.lastProcessTimeRef)
    THEN IF closure.isActive THEN RequestAnimationFrame(m, closure) ELSE m
    ELSE LET m1 == [m EXCEPT !.lastProcessTimeRef = t,
                             !.invocations = Append(@, t)]
             call == [seq |-> Len(m1.invocations), caller |-> "hook",
                      isActive |-> closure.isActive,
                      isInitialized |-> closure.isInitialized]
             m2 == DetectEmotions(m1, call)
         IN IF call \in m2.detections
            THEN m2
            ELSE AfterDetect(m2, closure, Null, videoRefCurrent)

\* initializeDetector up to its await.
InitializeDetector(m) ==
    IF ~m.detectorRef
    THEN Initialize([m EXCEPT !.detectorRef = TRUE, !.detector = NewDetector], "hook")
    ELSE m

\* initializeDetector after its await: setIsInitialized(true), or the catch
\* with setIsInitialized(false) when initialize() threw.
InitializeDetectorResumes(m) ==
    IF m.initOutcome = "rejected"
    THEN [m EXCEPT !.isInitialized = FALSE]
    ELSE [m EXCEPT !.isInitialized = TRUE]

\* Effects whose stop branch also drops the calls in flight.
RunEffectsCancelsCalls(m, wasActive, isActive, wasInitialized, v, t) ==
    LET loopDeps == wasActive # isActive \/ wasInitialized # m.isInitialized
        m1 == IF loopDeps THEN CancelAnimationFrame(m) ELSE m
        m2 == IF wasActive # isActive /\ isActive THEN InitializeDetector(m1) ELSE m1
    IN IF ~loopDeps THEN m2
       ELSE IF isActive /\ m2.isInitialized
       THEN ProcessFrame(m2, [isActive |-> isActive, isInitialized |-> m2.isInitialized],
                         TRUE, v, t)
       ELSE [CancelAnimationFrame(m2) EXCEPT !.detections = {}]

\* The effects of the hook after a render in which isActive went from wasActive
\* to isActive and isInitialized from wasInitialized to m.isInitialized: the
\* cleanup of the start/stop effect, the initialize effect, the start/stop effect.
RunEffects(m, wasActive, isActive, wasInitialized, v, t) ==
    LET loopDeps == wasActive # isActive \/ wasInitialized # m.isInitialized
        m1 == IF loopDeps THEN CancelAnimationFrame(m) ELSE m
        m2 == IF wasActive # isActive /\ isActive THEN InitializeDetector(m1) ELSE m1
    IN IF ~loopDeps THEN m2
       ELSE IF isActive /\ m2.isInitialized
       THEN ProcessFrame(m2, [isActive |-> isActive, isInitialized |-> m2.isInitialized],
                         TRUE, v, t)
       ELSE CancelAnimationFrame(m2)

\* The cleanups of the hook at unmount.
UnmountHook(m) ==
    LET m1 == CancelAnimationFrame(m)
        m2 == IF m1.detectorRef
              THEN [Dispose(m1) EXCEPT !.detectorRef = FALSE]
              ELSE m1
    IN CancelAnimationFrame(m2)


\* ------------------------------------------------------------- controller
\* The active flag handed to the hook.
IsActive == cameraEnabled /\ isVideoReady

\* A <video> element with no source.
NoSource(v) ==
    [v EXCEPT !.srcObject = 0, !.readyState = HaveNothing, !.loadedDataPending = FALSE]

\* A stream id for a new MediaStream: one that no live track and no reference uses.
FreeStreams == {s \in 1..MaxStreams :
                   tracks[s] # "live" /\ s # stream /\ s # video.srcObject}

\* The component c after its first render.
InitComponent(c) ==
    /\ mounted = TRUE
    /\ cameraEnabled = FALSE
    /\ isVideoReady = FALSE
    /\ stream = 0
    /\ video = [srcObject |-> 0, readyState |-> HaveNothing,
                onloadeddata |-> FALSE, loadedDataPending |-> FALSE]
    /\ tracks = [s \in 1..MaxStreams |-> "none"]
    /\ gumPending = 0
    /\ cameraInit = "none"
    /\ lastAcquire = "none"
    /\ component = c
    /\ micEnabled = FALSE
    /\ audio = [s \in 1..MaxStreams |-> "none"]
    /\ isInitialized = FALSE
    /\ detectorRef = FALSE
    /\ animationFrameRef = 0
    /\ lastProcessTimeRef = 0
    /\ emotionState = InitialEmotionState
    /\ additionalData = InitialAdditionalData
    /\ detector = NewDetector
    /\ loads = <<>>
    /\ detections = {}
    /\ rafQueue = {}
    /\ now = 0
    /\ invocations = <<>>
    /\ initOutcome = "none"
    /\ returned = "none"
    /\ disposed = FALSE
    /\ lastLoad = "none"
    /\ lastResult = Null
    /\ publishedSeq = 0

Init == InitComponent("CameraEmotionDetector")

\* The interview component asks getUserMedia for audio and keeps micEnabled.
Interview == component = "IntegratedAIInterviewWithTracking"

\* A stopCamera that leaves isVideoReady as it is.
StopCameraKeepsReady(streamSeen) ==
    /\ tracks' = IF streamSeen # 0 THEN [tracks EXCEPT ![streamSeen] = "ended"] ELSE tracks
    /\ stream' = IF streamSeen # 0 THEN 0 ELSE stream
    /\ video' = IF mounted THEN NoSource(video) ELSE video
    /\ cameraEnabled' = FALSE
    /\ micEnabled' = IF Interview THEN FALSE ELSE micEnabled
    /\ isVideoReady' = isVideoReady
    /\ SetHook(RunEffects(Hook, IsActive, FALSE, isInitialized, NoSource(video), now))

\* stopCamera as the render that holds streamSeen as its stream calls it.
StopCamera(streamSeen) ==
    /\ tracks' = IF streamSeen # 0 THEN [tracks EXCEPT ![streamSeen] = "ended"] ELSE tracks
    /\ stream' = IF streamSeen # 0 THEN 0 ELSE stream
    /\ video' = IF mounted THEN NoSource(video) ELSE video
    /\ cameraEnabled' = FALSE
    /\ micEnabled' = IF Interview THEN FALSE ELSE micEnabled
    /\ isVideoReady' = FALSE
    /\ SetHook(RunEffects(Hook, IsActive, FALSE, isInitialized, NoSource(video), now))

\* toggleCamera: stopCamera when enabled, else initializeCamera up to its await.
ToggleCamera ==
    /\ mounted
    /\ IF cameraEnabled
       THEN /\ StopCamera(stream)
            /\ UNCHANGED <<mounted, gumPending, cameraInit, lastAcquire, component, audio, now>>
       ELSE /\ gumPending < MaxPendingGUM
            /\ gumPending' = gumPending + 1
            /\ UNCHANGED <<mounted, cameraEnabled, isVideoReady, stream, video, tracks,
                           cameraInit, lastAcquire, component, micEnabled, audio, now>>
            /\ UNCHANGED hookVars

\* initializeCamera after getUserMedia resolved.
GetUserMediaResolves ==
    /\ gumPending > 0
    /\ FreeStreams # {}
    /\ LET s == CHOOSE x \in FreeStreams : \A y \in FreeStreams : x <= y
           v == [srcObject |-> s, readyState |-> HaveNothing,
                 onloadeddata |-> TRUE, loadedDataPending |-> FALSE]
       IN /\ gumPending' = gumPending - 1
          /\ tracks' = [tracks EXCEPT ![s] = "live"]
          /\ lastAcquire' = "granted"
          /\ cameraInit' = "resolved"
          /\ audio' = [audio EXCEPT ![s] = IF Interview THEN "enabled" ELSE "none"]
          /\ micEnabled' = IF mounted /\ Interview THEN TRUE ELSE micEnabled
          /\ IF mounted
             THEN /\ video' = v
                  /\ stream' = s
                  /\ cameraEnabled' = TRUE
                  /\ SetHook(RunEffects(Hook, IsActive, isVideoReady, isInitialized, v, now))
             ELSE /\ UNCHANGED <<video, stream, cameraEnabled>>
                  /\ UNCHANGED hookVars
    /\ UNCHANGED <<mounted, isVideoReady, component, now>>

\* initializeCamera after getUserMedia rejected: the catch logs the error and
\* the async function returns normally.
GetUserMediaRejects ==
    /\ gumPending > 0
    /\ gumPending' = gumPending - 1
    /\ lastAcquire' = "denied"
    /\ cameraInit' = "resolved"
    /\ UNCHANGED <<mounted, cameraEnabled, isVideoReady, stream, video, tracks,
                   component, micEnabled, audio, now>>
    /\ UNCHANGED hookVars

\* The element decodes data of its live stream; reaching data for the first
\* time queues the loadeddata event.
VideoData ==
    /\ mounted
    /\ video.srcObject # 0
    /\ tracks[video.srcObject] = "live"
    /\ \E r \in {HaveCurrentData, HaveEnoughData} :
          /\ r > video.readyState
          /\ video' = [video EXCEPT !.readyState = r,
                                    !.loadedDataPending =
                                        IF video.readyState = HaveNothing THEN TRUE ELSE @]
    /\ UNCHANGED <<mounted, cameraEnabled, isVideoReady, stream, tracks, gumPending,
                   cameraInit, lastAcquire, component, micEnabled, audio, now>>
    /\ UNCHANGED hookVars

\* The loadeddata event reaches the onloadeddata handler.
LoadedData ==
    /\ mounted
    /\ video.loadedDataPending
    /\ video' = [video EXCEPT !.loadedDataPending = FALSE]
    /\ IF video.onloadeddata
       THEN /\ isVideoReady' = TRUE
            /\ SetHook(RunEffects(Hook, IsActive, cameraEnabled, isInitialized,
                                  [video EXCEPT !.loadedDataPending = FALSE], now))
       ELSE /\ UNCHANGED isVideoReady
            /\ UNCHANGED hookVars
    /\ UNCHANGED <<mounted, cameraEnabled, stream, tracks, gumPending,
                   cameraInit, lastAcquire, component, micEnabled, audio, now>>

\* A toggleMicrophone without the `if (stream)`.
ToggleMicrophoneUnguarded ==
    /\ mounted
    /\ Interview
    /\ audio' = IF stream # 0
                THEN [audio EXCEPT ![stream] =
                         IF @ = "none" THEN @
                         ELSE IF ~micEnabled THEN "enabled" ELSE "disabled"]
                ELSE audio
    /\ micEnabled' = ~micEnabled
    /\ UNCHANGED <<mounted, cameraEnabled, isVideoReady, stream, video, tracks, gumPending,
                   cameraInit, lastAcquire, component, now>>
    /\ UNCHANGED hookVars

\* toggleMicrophone of the interview component.
ToggleMicrophone ==
    /\ mounted
    /\ Interview
    /\ IF stream # 0
       THEN /\ audio' = [audio EXCEPT ![stream] =
                            IF @ = "none" THEN @
                            ELSE IF ~micEnabled THEN "enabled" ELSE "disabled"]
            /\ micEnabled' = ~micEnabled
       ELSE UNCHANGED <<audio, micEnabled>>
    /\ UNCHANGED <<mounted, cameraEnabled, isVideoReady, stream, video, tracks, gumPending,
                   cameraInit, lastAcquire, component, now>>
    /\ UNCHANGED hookVars

\* The component unmounts: the cleanup of the component calls the stopCamera of
\* the first render (stream null, the ref already detached, state setters of an
\* unmounted component do nothing), the cleanups of the hook run.
Unmount ==
    /\ mounted
    /\ mounted' = FALSE
    /\ SetHook(UnmountHook(Hook))
    /\ UNCHANGED <<cameraEnabled, isVideoReady, stream, video, tracks, gumPending,
                   cameraInit, lastAcquire, component, micEnabled, audio, now>>

\* ----------------------------------------------------------------- loop
\* The host runs a requested animation frame.
Tick(f) ==
    /\ f \in rafQueue
    /\ SetHook(ProcessFrame([Hook EXCEPT !.rafQueue = @ \ {f}],
                            [isActive |-> f.isActive, isInitialized |-> f.isInitialized],
                            mounted, video, now))
    /\ UNCHANGED ctrlVars
    /\ UNCHANGED now

\* The capability answers a detectEmotions call.
DetectionCompletes(call, outcome) ==
    /\ call \in detections
    /\ LET m == DetectEmotionsReturns(Hook, call, outcome)
           result == DetectEmotionsResult(outcome)
       IN SetHook(IF call.caller = "hook"
                  THEN AfterDetect(m, call, result, mounted)
                  ELSE m)
    /\ UNCHANGED ctrlVars
    /\ UNCHANGED now

\* loads without its i-th element.
Without(seq, i) == [j \in 1..(Len(seq) - 1) |-> IF j < i THEN seq[j] ELSE seq[j + 1]]

\* The model load of an initialize() call succeeds; initializeDetector resumes.
LoadSucceeds(i) ==
    /\ i \in DOMAIN loads
    /\ LET m == ModelsLoaded([Hook EXCEPT !.loads = Without(@, i)], loads[i])
       IN SetHook(IF loads[i].caller = "hook" /\ mounted
                  THEN RunEffects(InitializeDetectorResumes(m),
                                  IsActive, IsActive, isInitialized, video, now)
                  ELSE m)
    /\ UNCHANGED ctrlVars
    /\ UNCHANGED now

\* The model load of an initialize() call fails; initializeDetector resumes.
LoadFails(i) ==
    /\ i \in DOMAIN loads
    /\ LET m == ModelsFailed([Hook EXCEPT !.loads = Without(@, i)], loads[i])
       IN SetHook(IF loads[i].caller = "hook" /\ mounted
                  THEN RunEffects(InitializeDetectorResumes(m),
                                  IsActive, IsActive, isInitialized, video, now)
                  ELSE m)
    /\ UNCHANGED ctrlVars
    /\ UNCHANGED now

\* Time passes.
AdvanceClock ==
    /\ now + ClockStep <= MaxTime
    /\ now' = now + ClockStep
    /\ UNCHANGED ctrlVars
    /\ UNCHANGED hookVars

Next ==
    \/ ToggleCamera
    \/ GetUserMediaResolves
    \/ GetUserMediaRejects
    \/ VideoData
    \/ LoadedData
    \/ Unmount
    \/ \E f \in rafQueue : Tick(f)
    \/ \E call \in detections, outcome \in CapabilityOutcomes : DetectionCompletes(call, outcome)
    \/ \E i \in DOMAIN loads : LoadSucceeds(i)
    \/ \E i \in DOMAIN loads : LoadFails(i)
    \/ AdvanceClock

Spec == Init /\ [][Next]_vars

\* ------------------------------------------------- the interview component
InitInterview == InitComponent("IntegratedAIInterviewWithTracking")

NextInterview ==
    \/ Next
    \/ ToggleMicrophone

SpecInterview == InitInterview /\ [][NextInterview]_vars


\* -------------------------------------- the detector driven by a direct caller
\* A FaceApiEmotionDetector just constructed, outside any component.
InitDetector ==
    /\ mounted = FALSE
    /\ cameraEnabled = FALSE
    /\ isVideoReady = FALSE
    /\ stream = 0
    /\ video = [srcObject |-> 0, readyState |-> HaveNothing,
                onloadeddata |-> FALSE, loadedDataPending |-> FALSE]
    /\ tracks = [s \in 1..MaxStreams |-> "none"]
    /\ gumPending = 0
    /\ cameraInit = "none"
    /\ lastAcquire = "none"
    /\ component = "CameraEmotionDetector"
    /\ micEnabled = FALSE
    /\ audio = [s \in 1..MaxStreams |-> "none"]
    /\ isInitialized = FALSE
    /\ detectorRef = FALSE
    /\ animationFrameRef = 0
    /\ lastProcessTimeRef = 0
    /\ emotionState = InitialEmotionState
    /\ additionalData = InitialAdditionalData
    /\ detector = NewDetector
    /\ loads = <<>>
    /\ detections = {}
    /\ rafQueue = {}
    /\ now = 0
    /\ invocations = <<>>
    /\ initOutcome = "none"
    /\ returned = "none"
    /\ disposed = FALSE
    /\ lastLoad = "none"
    /\ lastResult = Null
    /\ publishedSeq = 0

\* detector.initialize()
CallInitialize ==
    /\ Len(loads) < MaxLoads
    /\ SetHook(Initialize(Hook, "api"))
    /\ UNCHANGED ctrlVars
    /\ UNCHANGED now

\* detector.detectEmotions(frame)
CallDetectEmotions ==
    /\ Cardinality(detections) < MaxInFlight
    /\ SetHook(DetectEmotions(Hook,
                 [seq |-> SmallestFree({c.seq : c \in detections}), caller |-> "api",
                  isActive |-> FALSE, isInitialized |-> FALSE]))
    /\ UNCHANGED ctrlVars
    /\ UNCHANGED now

\* detector.dispose()
CallDispose ==
    /\ SetHook(Dispose(Hook))
    /\ UNCHANGED ctrlVars
    /\ UNCHANGED now

NextDetector ==
    \/ CallInitialize
    \/ CallDetectEmotions
    \/ CallDispose
    \/ \E call \in detections, outcome \in CapabilityOutcomes : DetectionCompletes(call, outcome)
    \/ \E i \in DOMAIN loads : LoadSucceeds(i)
    \/ \E i \in DOMAIN loads : LoadFails(i)

SpecDetector == InitDetector /\ [][NextDetector]_vars

\* ------------------------------- the running loop under a simulated clock
\* The loop just started by the render in which isInitialized became true while
\* the camera was on and the video ready, at the start of the clock or one
\* throttle period after it.
InitThrottle ==
    /\ mounted = TRUE
    /\ cameraEnabled = TRUE
    /\ isVideoReady = TRUE
    /\ stream = 1
    /\ video = [srcObject |-> 1, readyState |-> HaveEnoughData,
                onloadeddata |-> TRUE, loadedDataPending |-> FALSE]
    /\ tracks = [s \in 1..MaxStreams |-> IF s = 1 THEN "live" ELSE "none"]
    /\ gumPending = 0
    /\ cameraInit = "none"
    /\ lastAcquire = "none"
    /\ component = "CameraEmotionDetector"
    /\ micEnabled = FALSE
    /\ audio = [s \in 1..MaxStreams |-> "none"]
    /\ now \in {0, ThrottleMs}
    /\ HookIs(RunEffects(
                 [isInitialized |-> TRUE, detectorRef |-> TRUE, animationFrameRef |-> 0,
                  lastProcessTimeRef |-> 0, emotionState |-> InitialEmotionState,
                  additionalData |-> InitialAdditionalData,
                  detector |-> [isInitialized |-> TRUE, modelsLoaded |-> TRUE],
                  loads |-> <<>>, detections |-> {}, rafQueue |-> {},
                  invocations |-> <<>>, initOutcome |-> "resolved",
                  returned |-> "none", disposed |-> FALSE, lastLoad |-> "loaded",
                  lastResult |-> Null, publishedSeq |-> 0],
                 TRUE, TRUE, FALSE, video, now))

\* One display frame passes.
FrameElapses ==
    /\ now + FrameMs <= ThrottleHorizon
    /\ now' = now + FrameMs
    /\ UNCHANGED ctrlVars
    /\ UNCHANGED hookVars

NextThrottle ==
    \/ \E f \in rafQueue : Tick(f)
    \/ \E call \in detections, outcome \in CapabilityOutcomes : DetectionCompletes(call, outcome)
    \/ FrameElapses

SpecThrottle == InitThrottle /\ [][NextThrottle]_vars

\* ------------------------------------------- the normalizer over its inputs
\* The running loop with its first detectEmotions call awaiting the capability.
InitNormalize ==
    /\ InitThrottle
    /\ detections # {}

\* The capability answers with any face, with no face or with an exception.
NextNormalize ==
    \E call \in detections, outcome \in NormalizerInputs : DetectionCompletes(call, outcome)

SpecNormalize == InitNormalize /\ [][NextNormalize]_vars

\* ------------------------------------ the loop against a scripted capability
\* What the capability answers to the loop's n-th call: no face for the first
\* two samples, the happy face for the third, anything afterwards.
Script(n) ==
    IF n <= 2 THEN {[kind |-> "noface"]}
    ELSE IF n = 3 THEN {HappyFace}
    ELSE CapabilityOutcomes

ScriptedDetectionCompletes ==
    \E call \in detections :
        \E outcome \in Script(call.seq) : DetectionCompletes(call, outcome)

NextScenario ==
    \/ \E f \in rafQueue : Tick(f)
    \/ ScriptedDetectionCompletes
    \/ FrameElapses

SpecScenario == InitThrottle /\ [][NextScenario]_vars


\* ================================================================= claims
\* The hook runs with its active flag true.
Active == mounted /\ IsActive

\* This step called requestAnimationFrame (the handle it stores is never the
\* one stored before).
TickScheduled == animationFrameRef' # animationFrameRef

\* This step invoked detectEmotions from the loop.
DetectionDispatched == Len(invocations') > Len(invocations)

NoLiveTrack == \A s \in DOMAIN tracks : tracks[s] # "live"

\* C1: a detection is dispatched and a tick is scheduled only while the active
\* flag is true and the detector is ready: no step schedules a tick or invokes
\* detectEmotions unless the component is mounted with camera enabled and video
\* ready, and the detector is ready, in the state the step leaves.
C1_OnlyWhileActiveAndReady ==
    [][(TickScheduled \/ DetectionDispatched)
          => (Active' /\ isInitialized' /\ Ready(detector'))]_vars

\* C2: once deactivated (active flag false, or unmounted) no tick is pending,
\* whatever was in flight when the deactivation happened.
C2_NoTickAfterDeactivation == ~Active => rafQueue = {}

\* C3: successive invocations of detectEmotions by the loop are at least 333 ms
\* apart, and no 1000 ms of the clock hold more than ceil(1000/333) + 1 of them.
C3_Throttle ==
    /\ \A i \in 2..Len(invocations) : invocations[i] - invocations[i - 1] >= ThrottleMs
    /\ \A i \in 1..Len(invocations) :
          Cardinality({j \in i..Len(invocations) :
                          invocations[j] - invocations[i] <= 1000})
              <= (1000 + ThrottleMs - 1) \div ThrottleMs + 1

\* C3 witness: the loop has invoked detectEmotions three times within 1000 ms.
C3_Witness ==
    /\ Len(invocations) >= 3
    /\ invocations[Len(invocations)] - invocations[1] <= 1000

\* C4: every teardown of the controller (a step that unmounts the component or
\* turns the camera off) ends with no acquired stream having a live track.
C4_TeardownStopsTracks ==
    [][((mounted /\ ~mounted') \/ (cameraEnabled /\ ~cameraEnabled'))
          => NoLiveTrack']_vars

\* C5: at most one model load is in flight at any time.
C5_SingleLoadInFlight == Len(loads) <= 1

\* C6: once dispose() has run the detector is not ready until an initialize()
\* called after it succeeds; a load in flight at dispose() does not make it ready.
C6_DisposedNotReady == disposed => ~Ready(detector)

\* C7: when the model load has failed, initialize() has thrown to its caller,
\* the detector is not ready, the published isInitialized is false and no load
\* is in flight.
C7_LoadFailureFailsClosed ==
    lastLoad = "failed" =>
        /\ initOutcome = "rejected"
        /\ ~detector.isInitialized
        /\ ~detector.modelsLoaded
        /\ ~isInitialized
        /\ loads = <<>>

\* C7 witness: the load failed while the hook was mounted and active.
C7_Witness == lastLoad = "failed" /\ Active /\ detectorRef

\* C8: after a failed load, a step in which the active flag goes from false to
\* true starts a new model load.
C8_RetryAfterFailure ==
    [][(lastLoad = "failed" /\ ~Active /\ Active') => Len(loads') > 0]_vars

\* C9: detectEmotions called while the detector is not ready returns not-found
\* from its guard and does not call the capability.
C9_NotReadyIsNotFound ==
    [][(CallDetectEmotions /\ ~Ready(detector))
          => (returned' = "notInitialized" /\ detections' = detections)]_vars

\* C9 witness: a call made after dispose() has returned not-found from the guard.
C9_Witness ==
    /\ returned = "notInitialized"
    /\ disposed
    /\ ~Ready(detector)
    /\ detections = {}

\* C10: when the capability throws during a call of the loop, detectEmotions
\* returns not-found from its catch, nothing is published, the next tick is
\* scheduled and the detector's lifecycle is untouched (ready while mounted).
C10_CapabilityErrorContained ==
    [][\A call \in detections :
          (call.caller = "hook" /\ DetectionCompletes(call, [kind |-> "throws"]))
             => /\ returned' = "caught"
                /\ emotionState' = emotionState
                /\ additionalData' = additionalData
                /\ TickScheduled
                /\ \E f \in rafQueue' : f.id = animationFrameRef'
                /\ detector' = detector
                /\ mounted => (Ready(detector') /\ isInitialized')]_vars

\* C10 witness: the last call ended in the catch and the loop goes on.
C10_Witness ==
    /\ returned = "caught"
    /\ Active
    /\ Ready(detector)
    /\ \E f \in rafQueue : f.id = animationFrameRef

\* The published snapshot, as the presentation layer reads it.
Scores == emotionState.scores

\* C11: every published EmotionState has its dominant among the keys of its
\* scores, its confidence equal to the score of its dominant, and no category
\* with a greater score than its dominant.
C11_ConfidenceIsDominantScore ==
    /\ emotionState.dominant \in DOMAIN Scores
    /\ emotionState.confidence = Scores[emotionState.dominant]
    /\ \A c \in DOMAIN Scores : Scores[c] <= Scores[emotionState.dominant]

\* C12: the dominant of every result of detectEmotions and of every published
\* EmotionState is one of the seven categories neutral, happy, sad, angry,
\* surprised, fearful, disgust, and a key of the published scores.
C12_DominantInClosedSet ==
    /\ emotionState.dominant \in EmotionCategories
    /\ emotionState.dominant \in DOMAIN Scores
    /\ ~lastResult.null => lastResult.dominant \in EmotionCategories

\* C13: when a face is found, no expression of the result has a greater score
\* than its dominant, and the confidence is the score of the dominant.
C13_DominantIsMaximal ==
    (~lastResult.null /\ lastResult.faceDetected) =>
        /\ \A k \in DOMAIN lastResult.emotions :
              lastResult.emotions[lastResult.dominant] >= lastResult.emotions[k]
        /\ lastResult.confidence = lastResult.emotions[lastResult.dominant]

\* C13 witness: a face whose greatest score is its last expression's.
C13_Witness ==
    /\ ~lastResult.null
    /\ lastResult.faceDetected
    /\ lastResult.dominant = "surprised"
    /\ lastResult.confidence = Percent(ScoreLevels - 1)
    /\ lastResult.emotions.neutral = Percent(1)

\* The enumeration order of the categories, and the category of a face-api label.
EnumerationOrder == <<"neutral", "happy", "sad", "angry", "surprised", "fearful", "disgust">>
CategoryOf(label) == IF label = "disgusted" THEN "disgust" ELSE label
Position(category) == CHOOSE i \in DOMAIN EnumerationOrder : EnumerationOrder[i] = category

\* C14: when several expressions share the greatest score, the dominant is the
\* one whose category comes first in the order neutral, happy, sad, angry,
\* surprised, fearful, disgust.
C14_TieBreakByEnumerationOrder ==
    (~lastResult.null /\ lastResult.faceDetected) =>
        LET e == lastResult.emotions
            maxima == {k \in DOMAIN e : \A j \in DOMAIN e : e[k] >= e[j]}
        IN \A k \in maxima :
              Position(CategoryOf(lastResult.dominant)) <= Position(CategoryOf(k))

\* C15: a sample in which no face is found returns the result {neutral: 1,
\* others 0}, dominant neutral, confidence 0, no age and no gender, and is
\* published as dominant neutral, confidence 0, scores neutral 1 and every
\* other 0, with faceDetected false and no age and no gender.
C15_NoFaceSample ==
    [][\A call \in detections :
          (call.caller = "hook" /\ DetectionCompletes(call, [kind |-> "noface"]))
             => /\ lastResult' =
                      [null |-> FALSE,
                       emotions |-> [neutral |-> 100, happy |-> 0, sad |-> 0, angry |-> 0,
                                     fearful |-> 0, disgusted |-> 0, surprised |-> 0],
                       dominant |-> "neutral", confidence |-> 0,
                       age |-> UndefinedNum, gender |-> UndefinedStr,
                       faceDetected |-> FALSE]
                /\ mounted =>
                      /\ emotionState'.dominant = "neutral"
                      /\ emotionState'.confidence = 0
                      /\ emotionState'.scores =
                            [neutral |-> 100, happy |-> 0, sad |-> 0, angry |-> 0,
                             surprised |-> 0, fearful |-> 0, disgust |-> 0]
                      /\ additionalData' =
                            [age |-> UndefinedNum, gender |-> UndefinedStr,
                             faceDetected |-> FALSE]]_vars

\* C15 witness: a no-face sample has been published over that of a face.
C15_Witness ==
    /\ mounted
    /\ returned = "result"
    /\ ~lastResult.null
    /\ ~lastResult.faceDetected
    /\ ~additionalData.faceDetected
    /\ Len(invocations) >= 2

\* Samples of the loop that have completed, and the published dominant,
\* confidence and faceDetected.
Completed == Len(invocations) - Cardinality(detections)
PublishedView ==
    <<emotionState.dominant, emotionState.confidence, additionalData.faceDetected>>

\* C16: with the capability reporting no face for the first two samples and
\* {happy: 0.8, neutral: 0.1, sad: 0.1} with a face for the third, the first
\* completed sample publishes neutral/0 with faceDetected false, the second the
\* same, the third happy/0.8 with faceDetected true, and nothing else is
\* published in between.
C16_EndToEndScenario ==
    [][/\ Completed' \in {Completed, Completed + 1}
       /\ Completed' = Completed => PublishedView' = PublishedView
       /\ (Completed' = Completed + 1 /\ Completed' <= 2) =>
              (returned' = "result" /\ PublishedView' = <<"neutral", 0, FALSE>>)
       /\ (Completed' = Completed + 1 /\ Completed' = 3) =>
              (returned' = "result" /\ PublishedView' = <<"happy", 80, TRUE>>)]_vars

\* C16 witness: the third sample has been published.
C16_Witness ==
    /\ Completed = 3
    /\ returned = "result"
    /\ PublishedView = <<"happy", 80, TRUE>>

\* C17: when getUserMedia has failed, the camera is disabled, the video not
\* ready, no stream is held, no track is live, and initializeCamera() has
\* thrown to its caller.
C17_AcquisitionFailure ==
    lastAcquire = "denied" =>
        /\ cameraInit = "rejected"
        /\ ~cameraEnabled
        /\ ~isVideoReady
        /\ stream = 0
        /\ NoLiveTrack

\* Labels the icon and tone tables do not list.
UnlistedLabels == {"disgust", "contempt", "unknown"}

\* C18: the icon lookup and the tone lookup return a defined, non-empty value
\* for each of the seven categories and for unlisted labels, unlisted labels get
\* the value of neutral, and the icon of the published EmotionState is the
\* lookup value of its dominant.
C18_IconLookupTotal ==
    /\ \A c \in EmotionCategories \cup UnlistedLabels :
          /\ GetEmotionIcon(c) \notin {UndefinedStr, ""}
          /\ GetEmotionalTone(c) \notin {UndefinedStr, ""}
    /\ \A c \in UnlistedLabels :
          /\ GetEmotionIcon(c) = GetEmotionIcon("neutral")
          /\ GetEmotionalTone(c) = GetEmotionalTone("neutral")
    /\ emotionState.icon = GetEmotionIcon(emotionState.dominant)
    /\ emotionState.icon \notin {UndefinedStr, ""}

\* C18 witness: a sample has been published with the icon of its dominant.
C18_Witness ==
    /\ returned = "result"
    /\ emotionState.dominant = "disgusted"
    /\ emotionState.icon = "nauseated"

\* C19: while the loop is active and ready and the video frame is not
\* decodable, a tick is pending.
C19_NoStallOnFrameReadiness ==
    (Active /\ isInitialized /\ detectorRef /\ Ready(detector) /\ FrameNotReady(video))
        => rafQueue # {}

\* C20: a call of the loop that ends with not-found leaves the published
\* EmotionState and additionalData as they were and schedules the next tick,
\* and the published state changes only in a step in which a call returned a
\* result.
C20_NotFoundPublishesNothing ==
    [][/\ \A call \in detections :
             (call.caller = "hook" /\ DetectionCompletes(call, [kind |-> "throws"]))
                => /\ lastResult' = Null
                   /\ emotionState' = emotionState
                   /\ additionalData' = additionalData
                   /\ TickScheduled
       /\ (emotionState' # emotionState \/ additionalData' # additionalData)
             => /\ returned' = "result"
                /\ ~lastResult'.null
                /\ Cardinality(detections') < Cardinality(detections)]_vars

\* C20 witness: a call ended with not-found after a face had been published,
\* the face is still published and a tick is pending.
C20_Witness ==
    /\ Active
    /\ lastResult = Null
    /\ returned = "caught"
    /\ emotionState.dominant = "happy"
    /\ additionalData.faceDetected
    /\ rafQueue # {}

\* C21: at most one detectEmotions call is awaiting the capability.
C21_SingleDetectionInFlight == Cardinality(detections) <= 1

\* C22: the published result is never replaced by the result of a call that was
\* dispatched before the call whose result is published.
C22_PublishesInDispatchOrder == [][publishedSeq' >= publishedSeq]_vars

\* The active flag of the mounted hook goes from true to false in this step.
Deactivation == mounted /\ mounted' /\ IsActive /\ ~IsActive'

\* C23: a step that turns the active flag false leaves the calls in flight as
\* they are and removes only the tick the handle names, and a call that returns
\* a result while the flag is false publishes it as EmotionState and
\* additionalData.
C23_InFlightCallSurvivesDeactivation ==
    [][/\ Deactivation =>
             /\ detections' = detections
             /\ rafQueue' = {f \in rafQueue : f.id # animationFrameRef}
       /\ \A call \in detections :
             \A outcome \in CapabilityOutcomes \ {[kind |-> "throws"]} :
                (mounted /\ ~IsActive /\ call.caller = "hook"
                    /\ DetectionCompletes(call, outcome))
                   => /\ emotionState' = NewEmotionState(DetectEmotionsResult(outcome))
                      /\ additionalData' = NewAdditionalData(DetectEmotionsResult(outcome))
                      /\ publishedSeq' = call.seq]_vars

\* C23 witness: the camera is off and the last call, which returned after the
\* camera was turned off, is published.
C23_Witness ==
    /\ mounted
    /\ ~cameraEnabled
    /\ returned = "result"
    /\ publishedSeq = Len(invocations)
    /\ publishedSeq > 0
    /\ emotionState.dominant = "happy"
    /\ detections = {}
    /\ \E f \in rafQueue : f.id = animationFrameRef

\* C24: the processFrame call that starts the loop of a re-activation with a
\* decodable frame invokes detectEmotions, however little time has passed since
\* the last invocation.
C24_CleanThrottleOnActivation ==
    [][(invocations # <<>> /\ ~Active /\ Active' /\ isInitialized'
          /\ ~FrameNotReady(video') /\ detections = {})
          => DetectionDispatched]_vars

\* C25: at most one tick is pending, and a pending tick is the one the handle
\* names.
C25_SinglePendingTick ==
    /\ Cardinality(rafQueue) <= 1
    /\ \A f \in rafQueue : f.id = animationFrameRef

\* C26: at most one acquisition is pending or held, and every stream with a
\* live track is the stream held in the state of the mounted component.
C26_SingleAcquisition ==
    /\ gumPending + (IF stream # 0 THEN 1 ELSE 0) <= 1
    /\ \A s \in DOMAIN tracks : tracks[s] = "live" => (mounted /\ s = stream)

\* C27: cameraEnabled is true exactly when a stream is held, isVideoReady
\* implies cameraEnabled, and the active flag is true only with a held stream
\* whose track is live.
C27_EnabledIffStreamHeld ==
    /\ cameraEnabled <=> stream # 0
    /\ isVideoReady => cameraEnabled
    /\ IsActive => (stream # 0 /\ tracks[stream] = "live")

\* C27 witness: the camera was turned off after the video had been ready.
C27_Witness ==
    /\ mounted
    /\ ~cameraEnabled
    /\ ~isVideoReady
    /\ stream = 0
    /\ invocations # <<>>
    /\ \E s \in DOMAIN tracks : tracks[s] = "ended"

\* C28: in the interview component micEnabled equals the enabled flag of the
\* audio tracks of the held stream, micEnabled is false while no stream is held,
\* and toggleMicrophone with no stream held changes nothing.
C28_MicFlagMatchesTracks ==
    [][/\ (stream' # 0 /\ audio'[stream'] # "none")
             => (micEnabled' <=> audio'[stream'] = "enabled")
       /\ stream' = 0 => ~micEnabled'
       /\ (ToggleMicrophone /\ stream = 0) => (micEnabled' = micEnabled /\ audio' = audio)]_vars

\* C28 witness: the microphone was switched off while the stream is held.
C28_Witness ==
    /\ mounted
    /\ Interview
    /\ stream # 0
    /\ ~micEnabled
    /\ audio[stream] = "disabled"

====
